---- MODULE Spec2Model ----
(***************************************************************************)
(* Texas Hold'em: the hand evaluator (namespace HandEvaluator) and the     *)
(* betting / showdown state machine (class TexasHoldem) of main.cpp.       *)
(***************************************************************************)
EXTENDS Integers, Sequences, FiniteSets

VARIABLES
    cards,      \* evaluator harness: the vector<Card> handed to evaluateHand
    eval,       \* evaluator harness: what evaluateHand returned for cards
    board,      \* comparator harness: the communityCards handed to compareHands
    holes,      \* comparator harness: the hand of each of the three players
    cmp,        \* comparator harness: what the calls of compareHands returned
    deck,               \* Deck::cards, the back of the vector is the top
    players,            \* TexasHoldem::players, seat -> Player
    communityCards,     \* TexasHoldem::communityCards
    pot,                \* TexasHoldem::pot
    currentRound,       \* TexasHoldem::currentRound (0 pre-flop .. 3 river)
    dealerPosition,     \* TexasHoldem::dealerPosition
    currentBetAmount,   \* TexasHoldem::currentBetAmount
    lastAggressorIndex, \* TexasHoldem::lastAggressorIndex
    bigBlindIndex,      \* startGame's local bigBlindIndex
    currentPlayerIndex, \* bettingRound's local currentPlayerIndex
    firstPlayerIndex,   \* bettingRound's local firstPlayerIndex
    pc,                 \* where startGame / bettingRound stands
    lastAction,         \* the last choice handlePlayerAction read
    winners,            \* showdown's local winners
    roundsPlayed,       \* how many times main's loop has called startGame
    raisesMade,         \* how many raises were chosen in this round
    drawn               \* deck harness: the cards dealCard has returned

evalVars == <<cards, eval>>
cmpVars == <<board, holes, cmp>>
tableVars == <<deck, players, communityCards, pot, currentRound, dealerPosition>>
betVars == <<currentBetAmount, lastAggressorIndex, bigBlindIndex,
             currentPlayerIndex, firstPlayerIndex>>
histVars == <<lastAction, winners, roundsPlayed, raisesMade>>
gameVars == <<tableVars, betVars, pc, histVars>>
vars == <<evalVars, cmpVars, gameVars, drawn>>

(***************************************************************************)
(* enum class HandRank, Suit, Rank                                         *)
(***************************************************************************)
HIGH_CARD == 0
ONE_PAIR == 1
TWO_PAIR == 2
THREE_OF_A_KIND == 3
STRAIGHT == 4
FLUSH == 5
FULL_HOUSE == 6
FOUR_OF_A_KIND == 7
STRAIGHT_FLUSH == 8

HEARTS == 0
DIAMONDS == 1
CLUBS == 2
SPADES == 3

TWO == 2
THREE == 3
FOUR == 4
FIVE == 5
ACE == 14

\* Card(Suit s, Rank r); getValue() is the rank as an int.
Card(s, r) == [suit |-> s, rank |-> r]

\* The place of a card in the deck the Deck constructor builds.
DeckIndex(c) == 13 * c.suit + (c.rank - 2)

(***************************************************************************)
(* Bounds of the evaluator harness: the ranks 2..EvalTopRank and the ace,  *)
(* in the suits 0..EvalSuits-1; hands of MinCards..MaxCards cards.         *)
(***************************************************************************)
EvalTopRank == 6
EvalSuits == 4
MinCards == 5
HoleCards == 2
FlopCards == 3
MaxCards == HoleCards + FlopCards + 2

EvalRanks == (TWO..EvalTopRank) \cup {ACE}
EvalDeck == {Card(s, r) : s \in 0..(EvalSuits - 1), r \in EvalRanks}

(***************************************************************************)
(* Helpers for std::sort / std::unique / std::map iteration.               *)
(***************************************************************************)
SetMin(S) == CHOOSE x \in S : \A y \in S : x <= y
SetMax(S) == CHOOSE x \in S : \A y \in S : x >= y

RECURSIVE AscendingSeq(_)
AscendingSeq(S) ==
    IF S = {} THEN <<>>
    ELSE LET m == SetMin(S) IN <<m>> \o AscendingSeq(S \ {m})

\* n copies of x, as the inner push_back loop of getRankCounts produces.
RECURSIVE Repeat(_, _)
Repeat(x, n) == IF n = 0 THEN <<>> ELSE <<x>> \o Repeat(x, n - 1)

(***************************************************************************)
(* HandEvaluator::isStraight                                               *)
(***************************************************************************)
\* ranks after std::sort and std::unique/erase: the distinct values, ascending.
UniqueRanks(cs) == AscendingSeq({c.rank : c \in cs})

\* The inner loop at outer index i (0-based): ranks[i+j+1] == ranks[i+j] + 1
\* for j = 0..3.  Sequences are 1-based, hence the +1 on every index.
RunAt(ranks, i) == \A j \in 0..3 : ranks[i + j + 2] = ranks[i + j + 1] + 1

\* An isStraight without the special case: C13_WheelIsStraight tells it from
\* HasWheel.
NoWheel(ranks) == ranks # ranks

\* The special case A-2-3-4-5 looked up with std::find.
HasWheel(ranks) ==
    LET R == {ranks[k] : k \in 1..Len(ranks)}
    IN  {ACE, TWO, THREE, FOUR, FIVE} \subseteq R

\* The loop bound is ranks.size() - 5 in size_t.  With fewer than 5 distinct
\* ranks the subtraction wraps to a value above every index, so the scan is
\* not stopped by its bound.
ScanBoundWraps(ranks) == Len(ranks) < 5

\* The outcomes of isStraight.  With 5 or more distinct ranks the scan stays
\* inside the vector and the result is decided.  With fewer, no window of
\* five lies inside the vector, so the scan reads past its end before it can
\* return: the reads are undefined behaviour, and the scan can only leave by
\* a fault or by "return true" on whatever it read.
IsStraightOutcomes(cs) ==
    LET ranks == UniqueRanks(cs) IN
    IF Cardinality(cs) < 5 THEN {[fault |-> FALSE, value |-> FALSE]}
    ELSE IF ScanBoundWraps(ranks)
         THEN {[fault |-> TRUE, value |-> FALSE], [fault |-> FALSE, value |-> TRUE]}
         ELSE {[fault |-> FALSE,
                value |-> \/ \E i \in 0..(Len(ranks) - 5) : RunAt(ranks, i)
                          \/ HasWheel(ranks)]}

(***************************************************************************)
(* HandEvaluator::isFlush                                                  *)
(***************************************************************************)
isFlush(cs) ==
    /\ Cardinality(cs) >= 5
    /\ \E s \in {c.suit : c \in cs} : Cardinality({c \in cs : c.suit = s}) >= 5

(***************************************************************************)
(* HandEvaluator::getRankCounts                                            *)
(***************************************************************************)
RankCount(cs, r) == Cardinality({c \in cs : c.rank = r})

\* The sort comparator on (count, rank) pairs: count descending, then rank
\* descending.  rankCount is the std::map from rank to count.
CountPairBefore(rankCount, a, b) ==
    IF rankCount[a] # rankCount[b]
    THEN rankCount[a] > rankCount[b]
    ELSE a > b

\* The sorted pairs written out: each rank repeated count times.
RECURSIVE CountPairOrder(_, _)
CountPairOrder(rankCount, R) ==
    IF R = {} THEN <<>>
    ELSE LET f == CHOOSE a \in R : \A b \in R \ {a} : CountPairBefore(rankCount, a, b)
         IN  Repeat(f, rankCount[f]) \o CountPairOrder(rankCount, R \ {f})

getRankCounts(cs) ==
    LET R == {c.rank : c \in cs}
        rankCount == [r \in R |-> RankCount(cs, r)]
    IN  CountPairOrder(rankCount, R)

(***************************************************************************)
(* HandEvaluator::evaluateHand.  Classify is the cascade over the three    *)
(* features it computes first; rankCounts[k] of the source is rc[k+1].     *)
(***************************************************************************)
Classify(straight, flush, rc) ==
    LET n == Len(rc)
    IN  IF straight /\ flush THEN STRAIGHT_FLUSH
        ELSE IF n >= 4 /\ rc[1] = rc[4] THEN FOUR_OF_A_KIND
        ELSE IF n >= 5 /\ (\/ (rc[1] = rc[3] /\ rc[4] = rc[5])
                           \/ (rc[1] = rc[2] /\ rc[3] = rc[5])) THEN FULL_HOUSE
        ELSE IF flush THEN FLUSH
        ELSE IF straight THEN STRAIGHT
        ELSE IF n >= 3 /\ rc[1] = rc[3] THEN THREE_OF_A_KIND
        ELSE IF n >= 4 /\ rc[1] = rc[2] /\ rc[3] = rc[4] THEN TWO_PAIR
        ELSE IF n >= 2 /\ rc[1] = rc[2] THEN ONE_PAIR
        ELSE HIGH_CARD

\* What a call of evaluateHand can come to: a fault inside isStraight, or the
\* pair (HandRank, rankCounts).
Faulted == [fault |-> TRUE, rank |-> HIGH_CARD, key |-> <<>>]

evaluateHand(cs) ==
    IF Cardinality(cs) < 5
    THEN {[fault |-> FALSE, rank |-> HIGH_CARD, key |-> <<>>]}
    ELSE LET flush == isFlush(cs)
             rankCounts == getRankCounts(cs)
         IN  {IF o.fault THEN Faulted
              ELSE [fault |-> FALSE,
                    rank |-> Classify(o.value, flush, rankCounts),
                    key |-> rankCounts]
              : o \in IsStraightOutcomes(cs)}

(***************************************************************************)
(* HandEvaluator::compareHands on the hands of two players and the         *)
(* community cards.  getCombinedCards appends the community cards to the   *)
(* player's hand.  A call can come to a fault (inside either evaluateHand) *)
(* or to an int.                                                           *)
(***************************************************************************)
getCombinedCards(hand, community) == hand \cup community

Min2(a, b) == IF a < b THEN a ELSE b

\* The loop over the keys: the first position where they differ decides.
CompareKeys(k1, k2) ==
    LET n == Min2(Len(k1), Len(k2))
        D == {i \in 1..n : k1[i] # k2[i]}
    IN  IF D = {} THEN 0 ELSE k1[SetMin(D)] - k2[SetMin(D)]

CompareEvals(eval1, eval2) ==
    IF eval1.rank # eval2.rank THEN eval1.rank - eval2.rank
    ELSE CompareKeys(eval1.key, eval2.key)

compareHands(hand1, hand2, community) ==
    {IF eval1.fault \/ eval2.fault THEN [fault |-> TRUE, value |-> 0]
     ELSE [fault |-> FALSE, value |-> CompareEvals(eval1, eval2)]
     : eval1 \in evaluateHand(getCombinedCards(hand1, community)),
       eval2 \in evaluateHand(getCombinedCards(hand2, community))}

(***************************************************************************)
(* The table.  Bounds: NumPlayers seats (main accepts 2 to 22), at most    *)
(* MaxRounds calls of startGame and MaxRaises raises chosen in one round.  *)
(***************************************************************************)
NumPlayers == 3
MaxRounds == 2
MaxRaises == 2

StartingChips == 20000
SmallBlindAmount == 50
BigBlindAmount == 100

Seats == 0..(NumPlayers - 1)

\* Player::Player
NewPlayer ==
    [chips |-> StartingChips, currentBet |-> 0, isInGame |-> FALSE,
     isSmallBlind |-> FALSE, isBigBlind |-> FALSE, hasFolded |-> FALSE, hand |-> {}]

\* Player::resetForNewGame (resetHand, then isInGame = true)
ResetForNewGame(pl) ==
    [pl EXCEPT !.hand = {}, !.currentBet = 0, !.hasFolded = FALSE,
               !.isSmallBlind = FALSE, !.isBigBlind = FALSE, !.isInGame = TRUE]

\* Player::placeBet: whether it succeeds, and the player after it.
\* A placeBet that takes any amount: C11_StacksAndBets tells it from CanBet.
CanBetAnything(pl, amount) == amount = amount

CanBet(pl, amount) == amount <= pl.chips

\* A bet that is recorded but not taken from the stack: C26_ChipsConserved
\* tells it from PlaceBet.
PlaceBetKeepsChips(pl, amount) ==
    IF CanBet(pl, amount)
    THEN [pl EXCEPT !.currentBet = @ + amount]
    ELSE pl

PlaceBet(pl, amount) ==
    IF CanBet(pl, amount)
    THEN [pl EXCEPT !.chips = @ - amount, !.currentBet = @ + amount]
    ELSE pl

\* Player::winChips
WinChips(pl, amount) == [pl EXCEPT !.chips = @ + amount]

\* A contesting test that forgets the fold flag: C27_SomeoneContests tells it
\* from IsActive.
IsSeated(ps, i) == ps[i].isInGame

\* "in the game and not folded"
IsActive(ps, i) == ps[i].isInGame /\ ~ps[i].hasFolded

\* TexasHoldem::getActivePlayerCount
getActivePlayerCount(ps) == Cardinality({i \in Seats : IsActive(ps, i)})

\* A search that goes round the table the other way: C21_SeatOrder tells it
\* from getNextActivePlayerIndex.
getPreviousActivePlayerIndex(ps, currentIndex) ==
    LET K == {k \in 1..NumPlayers :
                IsActive(ps, (currentIndex + NumPlayers - k) % NumPlayers)}
    IN  IF K = {} THEN -1 ELSE (currentIndex + NumPlayers - SetMin(K)) % NumPlayers

\* TexasHoldem::getNextActivePlayerIndex: the seats after currentIndex are
\* tried in turn, currentIndex itself last; -1 when none is active.
getNextActivePlayerIndex(ps, currentIndex) ==
    LET K == {k \in 1..NumPlayers : IsActive(ps, (currentIndex + k) % NumPlayers)}
    IN  IF K = {} THEN -1 ELSE (currentIndex + SetMin(K)) % NumPlayers

(***************************************************************************)
(* Deck.  The constructor builds the 52 cards suit by suit; shuffle() puts *)
(* them in an order the model draws from Shuffles.                         *)
(***************************************************************************)
CardAt(k) == Card(k \div 13, (k % 13) + 2)

NewDeck == [k \in 1..52 |-> CardAt(k - 1)]

RECURSIVE Reverse(_)
Reverse(q) == IF q = <<>> THEN <<>> ELSE Reverse(Tail(q)) \o <<Head(q)>>

SeqRange(q) == {q[k] : k \in 1..Len(q)}

\* The deck that deals the cards of top first (in that order), the other
\* cards lying below them in the constructor's order.
StackedDeck(top) ==
    SelectSeq(NewDeck, LAMBDA c : c \notin SeqRange(top)) \o Reverse(top)

\* The order the top cards are dealt in: one card to each seat, a second card
\* to each seat, then burn and flop, burn and turn, burn and river.
DealOrder(hole, burns, community) ==
    [i \in 1..NumPlayers |-> hole[i][1]] \o [i \in 1..NumPlayers |-> hole[i][2]]
    \o <<burns[1], community[1], community[2], community[3],
         burns[2], community[4], burns[3], community[5]>>

Burns == <<Card(CLUBS, 5), Card(CLUBS, 6), Card(SPADES, 6)>>

\* Every seat holds an eight and a seven under a board of A K Q 9 4: all the
\* keys are equal.
TieHoles ==
    << <<Card(HEARTS, 8), Card(DIAMONDS, 7)>>, <<Card(DIAMONDS, 8), Card(CLUBS, 7)>>,
       <<Card(CLUBS, 8), Card(SPADES, 7)>>, <<Card(SPADES, 8), Card(HEARTS, 7)>>,
       <<Card(HEARTS, 6), Card(DIAMONDS, 5)>> >>
TieBoard ==
    <<Card(SPADES, ACE), Card(DIAMONDS, 13), Card(CLUBS, 12), Card(HEARTS, 9),
      Card(DIAMONDS, FOUR)>>

\* Under a board of K J 9 4 2 the seats hold, in seat order: nothing, a pair
\* of jacks, three kings, a pair of jacks again, three nines.
RankedHoles ==
    << <<Card(CLUBS, THREE), Card(DIAMONDS, 7)>>, <<Card(HEARTS, 11), Card(DIAMONDS, 8)>>,
       <<Card(HEARTS, 13), Card(CLUBS, 13)>>, <<Card(DIAMONDS, 11), Card(CLUBS, 8)>>,
       <<Card(HEARTS, 9), Card(CLUBS, 9)>> >>
RankedBoard ==
    <<Card(SPADES, 13), Card(SPADES, 11), Card(DIAMONDS, 9), Card(CLUBS, FOUR),
      Card(HEARTS, TWO)>>

\* Under a board of A A K K 4 seat 0 holds an ace and a king: its seven
\* cards have three distinct ranks.  The other seats hold a queen and a jack.
PairedHoles ==
    << <<Card(HEARTS, ACE), Card(HEARTS, 13)>>, <<Card(HEARTS, 12), Card(HEARTS, 11)>>,
       <<Card(DIAMONDS, 12), Card(CLUBS, 11)>>, <<Card(SPADES, 12), Card(DIAMONDS, 11)>>,
       <<Card(CLUBS, 12), Card(SPADES, 11)>> >>
PairedBoard ==
    <<Card(SPADES, ACE), Card(DIAMONDS, ACE), Card(DIAMONDS, 13), Card(CLUBS, 13),
      Card(DIAMONDS, FOUR)>>

Shuffles ==
    {StackedDeck(DealOrder(TieHoles, Burns, TieBoard)),
     StackedDeck(DealOrder(RankedHoles, Burns, RankedBoard)),
     StackedDeck(DealOrder(PairedHoles, Burns, PairedBoard))}

\* Deck::dealCard n times: the cards dealt, in order, and the deck left.  On an
\* empty deck dealCard returns Card(HEARTS, TWO) and leaves the deck empty.
RECURSIVE DealCards(_, _)
DealCards(d, n) ==
    IF n = 0 THEN [dealt |-> <<>>, deck |-> d]
    ELSE LET c == IF d = <<>> THEN Card(HEARTS, TWO) ELSE d[Len(d)]
             rest == IF d = <<>> THEN d ELSE SubSeq(d, 1, Len(d) - 1)
             more == DealCards(rest, n - 1)
         IN  [dealt |-> <<c>> \o more.dealt, deck |-> more.deck]

(***************************************************************************)
(* TexasHoldem::TexasHoldem, and main's addPlayer loop.                    *)
(***************************************************************************)
\* lastAction: the n-th call of handlePlayerAction in this round, the seat it
\* was for, the choice read ("fold", "call", "raise", or "skip" when the call
\* returned at once), the raise amount read, whether placeBet succeeded, and
\* since the last raise of the street: who raised and who has called.  offered
\* are the seats a choice has been read from in this street, and reacted those
\* it has been read from since the last raise that was taken.
NoAction ==
    [n |-> 0, seat |-> -1, kind |-> "none", amount |-> 0, ok |-> TRUE,
     raiser |-> -1, called |-> {}, offered |-> {}, reacted |-> {}]

GameInit ==
    /\ deck = NewDeck
    /\ players = [i \in Seats |-> NewPlayer]
    /\ communityCards = <<>>
    /\ pot = 0
    /\ currentRound = 0
    /\ dealerPosition = 0
    /\ currentBetAmount = 0
    /\ lastAggressorIndex = -1
    /\ bigBlindIndex = 0
    /\ currentPlayerIndex = 0
    /\ firstPlayerIndex = 0
    /\ pc = "idle"
    /\ lastAction = NoAction
    /\ winners = <<>>
    /\ roundsPlayed = 0
    /\ raisesMade = 0

(***************************************************************************)
(* TexasHoldem::startGame up to the pre-flop bettingRound: reset, blinds,  *)
(* hole cards.                                                             *)
(***************************************************************************)
\* A blind that is added to the pot whether or not placeBet took it:
\* C18_BlindsPosted tells it from PostBlind.
PostBlindUnpaid(st, seat, amount) ==
    [ps |-> [st.ps EXCEPT ![seat] = PlaceBet(@, amount)], pot |-> st.pot + amount]

\* The blind is moved to the pot only when placeBet succeeds.
PostBlind(st, seat, amount) ==
    IF CanBet(st.ps[seat], amount)
    THEN [ps |-> [st.ps EXCEPT ![seat] = PlaceBet(@, amount)], pot |-> st.pot + amount]
    ELSE st

StartGameWith(shuffles, rounds) ==
    /\ pc = "idle"
    /\ roundsPlayed < rounds
    /\ NumPlayers >= 2
    /\ \E shuffled \in shuffles :
         LET smallBlindIndex == (dealerPosition + 1) % NumPlayers
             bigBlind == (dealerPosition + 2) % NumPlayers
             reset == [i \in Seats |-> ResetForNewGame(players[i])]
             flagged == [reset EXCEPT ![smallBlindIndex].isSmallBlind = TRUE,
                                      ![bigBlind].isBigBlind = TRUE]
             afterSmall == PostBlind([ps |-> flagged, pot |-> 0],
                                     smallBlindIndex, SmallBlindAmount)
             afterBig == PostBlind(afterSmall, bigBlind, BigBlindAmount)
             d == DealCards(shuffled, HoleCards * NumPlayers)
         IN  /\ players' = [i \in Seats |->
                              [afterBig.ps[i] EXCEPT
                                 !.hand = {d.dealt[i + 1], d.dealt[NumPlayers + i + 1]}]]
             /\ pot' = afterBig.pot
             /\ deck' = d.deck
             /\ bigBlindIndex' = bigBlind
    /\ currentRound' = 0
    /\ communityCards' = <<>>
    /\ pc' = "street"
    /\ roundsPlayed' = roundsPlayed + 1
    /\ raisesMade' = 0
    /\ lastAction' = NoAction
    /\ winners' = <<>>
    /\ UNCHANGED <<dealerPosition, currentBetAmount, lastAggressorIndex,
                   currentPlayerIndex, firstPlayerIndex, evalVars, cmpVars, drawn>>

StartGame == StartGameWith(Shuffles, MaxRounds)

(***************************************************************************)
(* TexasHoldem::bettingRound up to its first handlePlayerAction.           *)
(***************************************************************************)
MaxCurrentBet(ps) ==
    SetMax({0} \cup {ps[i].currentBet : i \in {j \in Seats : IsActive(ps, j)}})

BeginBetting ==
    /\ pc = "street"
    /\ IF getActivePlayerCount(players) <= 1
       THEN /\ pc' = "afterbet"
            /\ UNCHANGED betVars
       ELSE LET startPlayerIndex ==
                    IF currentRound = 0
                    THEN getNextActivePlayerIndex(players, bigBlindIndex)
                    ELSE bigBlindIndex
            IN  /\ currentBetAmount' = MaxCurrentBet(players)
                /\ lastAggressorIndex' = -1
                /\ currentPlayerIndex' = startPlayerIndex
                /\ firstPlayerIndex' = startPlayerIndex
                /\ pc' = "act"
                /\ UNCHANGED bigBlindIndex
    /\ lastAction' = [lastAction EXCEPT !.raiser = -1, !.called = {},
                                        !.offered = {}, !.reacted = {}]
    /\ UNCHANGED <<tableVars, winners, roundsPlayed, raisesMade, evalVars, cmpVars, drawn>>

(***************************************************************************)
(* TexasHoldem::handlePlayerAction, one operator per choice.  Each gives   *)
(* the players, the pot, maxBet and lastAggressorIndex after the choice.   *)
(***************************************************************************)
ToCall(ps, maxBet, i) == maxBet - ps[i].currentBet

\* A raise prompt that takes any amount from 0: C16_StreetTerminates tells it
\* from MinRaise.
MinRaiseZero(ps, maxBet, i) == 0 * (maxBet + ps[i].chips)

MinRaise(ps, maxBet, i) ==
    (IF ToCall(ps, maxBet, i) > 0 THEN ToCall(ps, maxBet, i) ELSE 0) + BigBlindAmount

ChooseFold(ps, p, maxBet, agg, i) ==
    [ps |-> [ps EXCEPT ![i].hasFolded = TRUE], pot |-> p, maxBet |-> maxBet,
     agg |-> agg, ok |-> TRUE]

\* A call that credits the pot with the whole bet to match instead of the
\* amount owed: C9_CallMovesOwed tells it from ChooseCall.
ChooseCallWholeBet(ps, p, maxBet, agg, i) ==
    LET toCall == ToCall(ps, maxBet, i)
    IN  IF CanBet(ps[i], toCall)
        THEN [ps |-> [ps EXCEPT ![i] = PlaceBet(@, toCall)], pot |-> p + maxBet,
              maxBet |-> maxBet, agg |-> agg, ok |-> TRUE]
        ELSE [ps |-> [ps EXCEPT ![i].hasFolded = TRUE], pot |-> p, maxBet |-> maxBet,
              agg |-> agg, ok |-> FALSE]

ChooseCall(ps, p, maxBet, agg, i) ==
    LET toCall == ToCall(ps, maxBet, i)
    IN  IF CanBet(ps[i], toCall)
        THEN [ps |-> [ps EXCEPT ![i] = PlaceBet(@, toCall)], pot |-> p + toCall,
              maxBet |-> maxBet, agg |-> agg, ok |-> TRUE]
        ELSE [ps |-> [ps EXCEPT ![i].hasFolded = TRUE], pot |-> p, maxBet |-> maxBet,
              agg |-> agg, ok |-> FALSE]

\* A raise that credits the pot with the raise amount alone:
\* C10_PotIsSumOfBets tells it from ChooseRaise.
ChooseRaiseAmountOnly(ps, p, maxBet, agg, i, raiseAmount) ==
    LET toCall == ToCall(ps, maxBet, i)
        after == PlaceBet(ps[i], toCall + raiseAmount)
    IN  IF CanBet(ps[i], toCall + raiseAmount)
        THEN [ps |-> [ps EXCEPT ![i] = after], pot |-> p + raiseAmount,
              maxBet |-> after.currentBet, agg |-> i, ok |-> TRUE]
        ELSE [ps |-> [ps EXCEPT ![i].hasFolded = TRUE], pot |-> p, maxBet |-> maxBet,
              agg |-> agg, ok |-> FALSE]

\* A raise that leaves maxBet as it was: C20_RaiseReopens tells it from
\* ChooseRaise.
ChooseRaiseKeepsMax(ps, p, maxBet, agg, i, raiseAmount) ==
    LET toCall == ToCall(ps, maxBet, i)
    IN  IF CanBet(ps[i], toCall + raiseAmount)
        THEN [ps |-> [ps EXCEPT ![i] = PlaceBet(@, toCall + raiseAmount)],
              pot |-> p + (toCall + raiseAmount), maxBet |-> maxBet, agg |-> i,
              ok |-> TRUE]
        ELSE [ps |-> [ps EXCEPT ![i].hasFolded = TRUE], pot |-> p, maxBet |-> maxBet,
              agg |-> agg, ok |-> FALSE]

ChooseRaise(ps, p, maxBet, agg, i, raiseAmount) ==
    LET toCall == ToCall(ps, maxBet, i)
        after == PlaceBet(ps[i], toCall + raiseAmount)
    IN  IF CanBet(ps[i], toCall + raiseAmount)
        THEN [ps |-> [ps EXCEPT ![i] = after], pot |-> p + (toCall + raiseAmount),
              maxBet |-> after.currentBet, agg |-> i, ok |-> TRUE]
        ELSE [ps |-> [ps EXCEPT ![i].hasFolded = TRUE], pot |-> p, maxBet |-> maxBet,
              agg |-> agg, ok |-> FALSE]

\* The amounts the model types in at the raise prompt: the least one, one chip
\* more, the most that placeBet will take, and the whole stack.  The prompt
\* takes any amount from minRaise to the stack.
RaiseAmounts(ps, maxBet, i) ==
    {MinRaise(ps, maxBet, i), MinRaise(ps, maxBet, i) + 1,
     ps[i].chips - ToCall(ps, maxBet, i), ps[i].chips}
    \cap (MinRaise(ps, maxBet, i)..ps[i].chips)

(***************************************************************************)
(* The rest of bettingRound's loop body after handlePlayerAction.          *)
(***************************************************************************)
\* A loop that stops as soon as one contesting player has matched:
\* C6_MatchedOnReturn tells it from AllCalled.
AnyCalled(ps, maxBet) ==
    \E i \in Seats : IsActive(ps, i) /\ ps[i].currentBet >= maxBet

AllCalled(ps, maxBet) ==
    \A i \in Seats : IsActive(ps, i) => ps[i].currentBet >= maxBet

LoopTail(res) ==
    /\ players' = res.ps
    /\ pot' = res.pot
    /\ currentBetAmount' = res.maxBet
    /\ lastAggressorIndex' = res.agg
    /\ IF getActivePlayerCount(res.ps) <= 1 \/ AllCalled(res.ps, res.maxBet)
       THEN /\ pc' = "afterbet"
            /\ UNCHANGED <<currentPlayerIndex, firstPlayerIndex>>
       ELSE LET nxt == getNextActivePlayerIndex(res.ps, currentPlayerIndex)
            IN  /\ pc' = "act"
                /\ IF nxt = firstPlayerIndex /\ res.agg # -1
                   THEN /\ firstPlayerIndex' = getNextActivePlayerIndex(res.ps, res.agg)
                        /\ currentPlayerIndex' = getNextActivePlayerIndex(res.ps, res.agg)
                   ELSE /\ currentPlayerIndex' = nxt
                        /\ UNCHANGED firstPlayerIndex
    /\ UNCHANGED <<deck, communityCards, currentRound, dealerPosition, bigBlindIndex,
                   winners, roundsPlayed, evalVars, cmpVars, drawn>>

Acted(kind, amount, ok) ==
    [n |-> lastAction.n + 1, seat |-> currentPlayerIndex, kind |-> kind,
     amount |-> amount, ok |-> ok,
     raiser |-> IF kind = "raise" /\ ok THEN currentPlayerIndex
                ELSE IF kind = "call" /\ ok THEN lastAction.raiser ELSE -1,
     called |-> IF kind = "call" /\ ok /\ lastAction.raiser # -1
                THEN lastAction.called \cup {currentPlayerIndex} ELSE {},
     offered |-> IF kind = "skip" THEN lastAction.offered
                 ELSE lastAction.offered \cup {currentPlayerIndex},
     reacted |-> IF kind = "skip" THEN lastAction.reacted
                 ELSE IF kind = "raise" /\ ok THEN {}
                 ELSE lastAction.reacted \cup {currentPlayerIndex}]

\* handlePlayerAction for a seat that is not in the game or has folded.
SkipInactive ==
    /\ pc = "act"
    /\ ~IsActive(players, currentPlayerIndex)
    /\ lastAction' = Acted("skip", 0, TRUE)
    /\ UNCHANGED raisesMade
    /\ LoopTail([ps |-> players, pot |-> pot, maxBet |-> currentBetAmount,
                 agg |-> lastAggressorIndex])

Fold ==
    /\ pc = "act"
    /\ IsActive(players, currentPlayerIndex)
    /\ lastAction' = Acted("fold", 0, TRUE)
    /\ UNCHANGED raisesMade
    /\ LoopTail(ChooseFold(players, pot, currentBetAmount, lastAggressorIndex,
                           currentPlayerIndex))

Call ==
    /\ pc = "act"
    /\ IsActive(players, currentPlayerIndex)
    /\ ToCall(players, currentBetAmount, currentPlayerIndex) > 0
    /\ LET res == ChooseCall(players, pot, currentBetAmount, lastAggressorIndex,
                             currentPlayerIndex)
       IN  /\ lastAction' = Acted("call", 0, res.ok)
           /\ LoopTail(res)
    /\ UNCHANGED raisesMade

Raise ==
    /\ pc = "act"
    /\ IsActive(players, currentPlayerIndex)
    /\ raisesMade < MaxRaises
    /\ \E raiseAmount \in RaiseAmounts(players, currentBetAmount, currentPlayerIndex) :
         LET res == ChooseRaise(players, pot, currentBetAmount, lastAggressorIndex,
                                currentPlayerIndex, raiseAmount)
         IN  /\ lastAction' = Acted("raise", raiseAmount, res.ok)
             /\ LoopTail(res)
    /\ raisesMade' = raisesMade + 1

(***************************************************************************)
(* startGame between the betting rounds: the next street is dealt while    *)
(* more than one player contests the pot.                                  *)
(***************************************************************************)
\* A startGame that deals on while anyone is left:
\* C7_LoneSurvivorEndsRound tells it from StillContested.
SomeoneLeft(ps) == getActivePlayerCount(ps) >= 1

StillContested(ps) == getActivePlayerCount(ps) > 1

DealStreet(street, n) ==
    /\ pc = "afterbet"
    /\ currentRound = street - 1
    /\ StillContested(players)
    /\ LET d == DealCards(deck, 1 + n)
       IN  /\ deck' = d.deck
           /\ communityCards' = communityCards \o Tail(d.dealt)
    /\ currentRound' = street
    /\ pc' = "street"
    /\ UNCHANGED <<players, pot, dealerPosition, betVars, histVars, evalVars, cmpVars, drawn>>

dealFlop == DealStreet(1, FlopCards)

\* A turn that reveals two cards: C23_StreetOrder tells it from dealTurn.
dealTurnTwoCards == DealStreet(2, 2)

dealTurn == DealStreet(2, 1)

dealRiver == DealStreet(3, 1)

(***************************************************************************)
(* TexasHoldem::showdown, and the end of startGame.  Every evaluateHand    *)
(* the function makes can come to a fault; the outcomes are a set.         *)
(***************************************************************************)
RemainingPlayers(ps) == AscendingSeq({i \in Seats : IsActive(ps, i)})

\* The loop that prints each remaining player's category.
DisplayOutcomes(ps, community, remaining) ==
    LET evals(i) == evaluateHand(getCombinedCards(ps[i].hand, community))
    IN  {TRUE : i \in {j \in SeqRange(remaining) : \E e \in evals(j) : e.fault}}
        \cup {FALSE : x \in {1} \cap
                  {IF \A j \in SeqRange(remaining) : \E e \in evals(j) : ~e.fault
                   THEN 1 ELSE 0}}

\* One pass of the winner loop: w is winnerIndex, winners and tie so far.
CompareStep(w, compareResult, challenger) ==
    IF compareResult < 0
    THEN [winnerIndex |-> challenger, winners |-> <<challenger>>, tie |-> FALSE]
    ELSE IF compareResult = 0
    THEN [w EXCEPT !.winners = Append(@, challenger), !.tie = TRUE]
    ELSE w

RECURSIVE FindWinners(_, _, _, _, _)
FindWinners(ps, community, remaining, i, w) ==
    IF i > Len(remaining) THEN {[fault |-> FALSE, w |-> w]}
    ELSE UNION {IF r.fault THEN {[fault |-> TRUE, w |-> w]}
                ELSE FindWinners(ps, community, remaining, i + 1,
                                 CompareStep(w, r.value, remaining[i]))
                : r \in compareHands(ps[w.winnerIndex].hand, ps[remaining[i]].hand,
                                     community)}

\* A split that drops the remainder: C5_SplitPot tells it from Payout.
PayoutQuotientOnly(ps, w, p) ==
    IF w.tie
    THEN [i \in Seats |-> IF i \in SeqRange(w.winners)
                          THEN WinChips(ps[i], p \div Len(w.winners)) ELSE ps[i]]
    ELSE [ps EXCEPT ![w.winnerIndex] = WinChips(@, p)]

\* The pot goes to the winner, or is split: the quotient to each winner and
\* the remainder to winners[0].
Payout(ps, w, p) ==
    IF w.tie
    THEN LET splitPot == p \div Len(w.winners)
             remainder == p % Len(w.winners)
             paid == [i \in Seats |-> IF i \in SeqRange(w.winners)
                                      THEN WinChips(ps[i], splitPot) ELSE ps[i]]
         IN  IF remainder > 0
             THEN [paid EXCEPT ![w.winners[1]] = WinChips(@, remainder)]
             ELSE paid
    ELSE [ps EXCEPT ![w.winnerIndex] = WinChips(@, p)]

showdown(ps, community, p) ==
    LET remaining == RemainingPlayers(ps)
        first == [winnerIndex |-> remaining[1], winners |-> <<remaining[1]>>,
                  tie |-> FALSE]
    IN  IF remaining = <<>> THEN {[fault |-> FALSE, ps |-> ps, winners |-> <<>>]}
        ELSE IF Len(remaining) = 1
        THEN {[fault |-> FALSE, ps |-> Payout(ps, first, p), winners |-> first.winners]}
        ELSE UNION {IF shown
                    THEN {[fault |-> TRUE, ps |-> ps, winners |-> <<>>]}
                    ELSE {IF o.fault THEN [fault |-> TRUE, ps |-> ps, winners |-> <<>>]
                          ELSE [fault |-> FALSE, ps |-> Payout(ps, o.w, p),
                                winners |-> o.w.winners]
                          : o \in FindWinners(ps, community, remaining, 2, first)}
                    : shown \in DisplayOutcomes(ps, community, remaining)}

\* A startGame that leaves the dealer where it is: C15_DealerRotates tells it
\* from NextDealer.
SameDealer(dealer) == dealer

\* The dealer of the next round.
NextDealer(dealer) == (dealer + 1) % NumPlayers

Showdown ==
    /\ pc = "afterbet"
    /\ currentRound = 3 \/ ~StillContested(players)
    /\ \E o \in showdown(players, SeqRange(communityCards), pot) :
         IF o.fault
         THEN /\ pc' = "fault"
              /\ UNCHANGED <<players, winners, dealerPosition>>
         ELSE /\ players' = o.ps
              /\ winners' = o.winners
              /\ dealerPosition' = NextDealer(dealerPosition)
              /\ pc' = "idle"
    /\ UNCHANGED <<deck, communityCards, pot, currentRound, betVars, lastAction,
                   roundsPlayed, raisesMade, evalVars, cmpVars, drawn>>

(***************************************************************************)
(* Evaluator harness: a hand of distinct cards is put together card by     *)
(* card and handed to evaluateHand.                                        *)
(***************************************************************************)
NoEval == [fault |-> FALSE, rank |-> -1, key |-> <<>>]

(***************************************************************************)
(* Comparator harness: five community cards and two cards for each of      *)
(* three players are dealt from CompareDeck, then compareHands is called   *)
(* on every ordered pair of players, in the order of ComparePair.          *)
(***************************************************************************)
CompareDeck ==
    {Card(SPADES, ACE), Card(DIAMONDS, 13), Card(CLUBS, 12), Card(SPADES, 11),
     Card(HEARTS, 9),
     Card(DIAMONDS, FOUR), Card(HEARTS, FOUR), Card(CLUBS, THREE),
     Card(DIAMONDS, THREE), Card(CLUBS, TWO), Card(DIAMONDS, TWO)}

ComparePlayers == 1..3
NumCompares == Cardinality(ComparePlayers) * Cardinality(ComparePlayers)
\* The k-th call compares player ComparePair(k)[1] with ComparePair(k)[2].
ComparePair(k) == <<((k - 1) \div 3) + 1, ((k - 1) % 3) + 1>>
CompareIndex(i, j) == 3 * (i - 1) + j

CmpIdle ==
    /\ board = {}
    /\ holes = [p \in ComparePlayers |-> {}]
    /\ cmp = <<>>

DeckIdle == drawn = <<>>

EvalIdle ==
    /\ cards = {}
    /\ eval = NoEval

EvalInit ==
    /\ EvalIdle
    /\ CmpIdle
    /\ GameInit
    /\ DeckIdle

\* Cards are added in deck order: evaluateHand sorts and counts, so the order
\* of the vector does not reach its result.
AddCard ==
    /\ eval = NoEval
    /\ Cardinality(cards) < MaxCards
    /\ \E c \in EvalDeck :
          /\ \A d \in cards : DeckIndex(d) < DeckIndex(c)
          /\ cards' = cards \cup {c}
    /\ UNCHANGED <<eval, cmpVars, gameVars, drawn>>

EvaluateHand ==
    /\ eval = NoEval
    /\ Cardinality(cards) >= MinCards
    /\ eval' \in evaluateHand(cards)
    /\ UNCHANGED <<cards, cmpVars, gameVars, drawn>>

EvalNext == AddCard \/ EvaluateHand

SpecEval == EvalInit /\ [][EvalNext]_vars

CompareInit ==
    /\ EvalIdle
    /\ CmpIdle
    /\ GameInit
    /\ DeckIdle

Dealt == board \cup UNION {holes[p] : p \in ComparePlayers}

DealBoardFrom(D) ==
    /\ board = {}
    /\ \E b \in SUBSET D :
          /\ Cardinality(b) = FlopCards + 2
          /\ board' = b
    /\ UNCHANGED <<holes, cmp, evalVars, gameVars, drawn>>

DealBoard == DealBoardFrom(CompareDeck)

FirstIndex(h) == SetMin({DeckIndex(c) : c \in h})

\* Every ordered pair of players is compared, so the hands are dealt in one
\* order only: by the deck place of their first card.
DealHoleFrom(D) ==
    /\ board # {}
    /\ \E p \in ComparePlayers :
          /\ holes[p] = {}
          /\ \A q \in ComparePlayers : q < p => holes[q] # {}
          /\ \E h \in SUBSET (D \ Dealt) :
                /\ Cardinality(h) = HoleCards
                /\ p > 1 => FirstIndex(holes[p - 1]) < FirstIndex(h)
                /\ holes' = [holes EXCEPT ![p] = h]
    /\ UNCHANGED <<board, cmp, evalVars, gameVars, drawn>>

DealHole == DealHoleFrom(CompareDeck)

CompareHands ==
    /\ \A p \in ComparePlayers : holes[p] # {}
    /\ Len(cmp) < NumCompares
    /\ LET pr == ComparePair(Len(cmp) + 1)
       IN  \E r \in compareHands(holes[pr[1]], holes[pr[2]], board) :
              cmp' = Append(cmp, r)
    /\ UNCHANGED <<board, holes, evalVars, gameVars, drawn>>

CompareNext == DealBoard \/ DealHole \/ CompareHands

SpecCompare == CompareInit /\ [][CompareNext]_vars

(***************************************************************************)
(* The comparator harness on a deck of low straights: ace to six with a    *)
(* second six, a nine, two tens and a king, no five cards of one suit.     *)
(***************************************************************************)
WheelDeck ==
    {Card(SPADES, ACE), Card(HEARTS, TWO), Card(DIAMONDS, THREE), Card(CLUBS, FOUR),
     Card(SPADES, FIVE), Card(HEARTS, 6), Card(DIAMONDS, 6), Card(DIAMONDS, 9),
     Card(DIAMONDS, 10), Card(CLUBS, 10), Card(HEARTS, 13)}

DealWheelBoard == DealBoardFrom(WheelDeck)

DealWheelHole == DealHoleFrom(WheelDeck)

WheelNext == DealWheelBoard \/ DealWheelHole \/ CompareHands

SpecWheel == CompareInit /\ [][WheelNext]_vars

Init ==
    /\ EvalIdle
    /\ CmpIdle
    /\ GameInit
    /\ DeckIdle

Next ==
    \/ StartGame
    \/ BeginBetting
    \/ SkipInactive
    \/ Fold
    \/ Call
    \/ Raise
    \/ dealFlop
    \/ dealTurn
    \/ dealRiver
    \/ Showdown

Spec == Init /\ [][Next]_vars

(***************************************************************************)
(* The table over RotationRounds rounds in which nobody raises: every      *)
(* choice read is a fold or a call.                                        *)
(***************************************************************************)
RotationRounds == 3

RotationShuffles ==
    {StackedDeck(DealOrder(TieHoles, Burns, TieBoard)),
     StackedDeck(DealOrder(RankedHoles, Burns, RankedBoard))}

StartRotationGame == StartGameWith(RotationShuffles, RotationRounds)

RotationNext ==
    \/ StartRotationGame
    \/ BeginBetting
    \/ SkipInactive
    \/ Fold
    \/ Call
    \/ dealFlop
    \/ dealTurn
    \/ dealRiver
    \/ Showdown

SpecRotation == Init /\ [][RotationNext]_vars

(***************************************************************************)
(* Deck harness: a new deck is shuffled or left as built, and dealCard is  *)
(* called on it until it is empty and ExtraDeals times more.               *)
(***************************************************************************)
ExtraDeals == 2

shuffle ==
    /\ deck = NewDeck
    /\ drawn = <<>>
    /\ deck' \in Shuffles
    /\ UNCHANGED <<players, communityCards, pot, currentRound, dealerPosition,
                   betVars, pc, histVars, evalVars, cmpVars, drawn>>

dealCard ==
    /\ Len(drawn) < Len(NewDeck) + ExtraDeals
    /\ LET d == DealCards(deck, 1)
       IN  /\ deck' = d.deck
           /\ drawn' = drawn \o d.dealt
    /\ UNCHANGED <<players, communityCards, pot, currentRound, dealerPosition,
                   betVars, pc, histVars, evalVars, cmpVars>>

DeckNext == shuffle \/ dealCard

SpecDeck == Init /\ [][DeckNext]_vars

(***************************************************************************)
(* The table over StreetRounds rounds with players who answer: a call of   *)
(* handlePlayerAction that is waiting for a choice gets one.               *)
(***************************************************************************)
StreetRounds == 1

StartStreetGame == StartGameWith(Shuffles, StreetRounds)

Answer == SkipInactive \/ Fold \/ Call \/ Raise

StreetNext ==
    \/ StartStreetGame
    \/ BeginBetting
    \/ Answer
    \/ dealFlop
    \/ dealTurn
    \/ dealRiver
    \/ Showdown

SpecStreet == Init /\ [][StreetNext]_vars /\ WF_vars(Answer)

(***************************************************************************)
(* Table-size harness: main adds 2 to 22 players with addPlayer, then      *)
(* startGame is run SeatedRounds times.  players is the vector that        *)
(* addPlayer pushes to, and every call of dealCard is a step; the betting  *)
(* rounds and showdown deal no card and are left out, a round ending       *)
(* after the hole cards or after any street.                               *)
(***************************************************************************)
MaxPlayers == 22

SeatedRounds == 2

SeatedInit ==
    /\ EvalIdle
    /\ CmpIdle
    /\ DeckIdle
    /\ deck = NewDeck
    /\ players = <<>>
    /\ communityCards = <<>>
    /\ pot = 0
    /\ currentRound = 0
    /\ dealerPosition = 0
    /\ currentBetAmount = 0
    /\ lastAggressorIndex = -1
    /\ bigBlindIndex = 0
    /\ currentPlayerIndex = 0
    /\ firstPlayerIndex = 0
    /\ pc = "idle"
    /\ lastAction = NoAction
    /\ winners = <<>>
    /\ roundsPlayed = 0
    /\ raisesMade = 0

\* An addPlayer whose limit test is off by one: C28_DeckNeverRunsOut tells it
\* from addPlayer.
addPlayerOneMore ==
    /\ pc = "idle"
    /\ roundsPlayed = 0
    /\ Len(players) <= MaxPlayers
    /\ players' = Append(players, NewPlayer)
    /\ UNCHANGED <<deck, communityCards, pot, currentRound, dealerPosition,
                   betVars, pc, histVars, evalVars, cmpVars, drawn>>

addPlayer ==
    /\ pc = "idle"
    /\ roundsPlayed = 0
    /\ Len(players) < MaxPlayers
    /\ players' = Append(players, NewPlayer)
    /\ UNCHANGED <<deck, communityCards, pot, currentRound, dealerPosition,
                   betVars, pc, histVars, evalVars, cmpVars, drawn>>

\* startGame up to the first hole card: reset, new shuffled deck, blinds.
SeatedStart ==
    /\ pc = "idle"
    /\ roundsPlayed < SeatedRounds
    /\ Len(players) >= 2
    /\ deck' \in Shuffles
    /\ LET n == Len(players)
           smallBlindIndex == (dealerPosition + 1) % n
           bigBlind == (dealerPosition + 2) % n
           reset == [i \in 1..n |-> ResetForNewGame(players[i])]
           flagged == [reset EXCEPT ![smallBlindIndex + 1].isSmallBlind = TRUE,
                                    ![bigBlind + 1].isBigBlind = TRUE]
           afterSmall == PostBlind([ps |-> flagged, pot |-> 0],
                                   smallBlindIndex + 1, SmallBlindAmount)
           afterBig == PostBlind(afterSmall, bigBlind + 1, BigBlindAmount)
       IN  /\ players' = afterBig.ps
           /\ pot' = afterBig.pot
           /\ bigBlindIndex' = bigBlind
    /\ currentRound' = 0
    /\ communityCards' = <<>>
    /\ drawn' = <<>>
    /\ pc' = "deal"
    /\ roundsPlayed' = roundsPlayed + 1
    /\ UNCHANGED <<dealerPosition, currentBetAmount, lastAggressorIndex,
                   currentPlayerIndex, firstPlayerIndex, lastAction, winners,
                   raisesMade, evalVars, cmpVars>>

\* The next dealCard of the round: a hole card, or with s cards dealt after
\* the hole cards, a burn (s = 0, 4, 6) or a community card.
SeatedDeal ==
    /\ pc = "deal"
    /\ LET n == Len(players)
           k == Len(drawn)
           s == k - HoleCards * n
           d == DealCards(deck, 1)
           c == d.dealt[1]
       IN  /\ s < 8
           /\ deck' = d.deck
           /\ drawn' = Append(drawn, c)
           /\ IF s < 0
              THEN /\ players' = [players EXCEPT ![(k % n) + 1].hand = @ \cup {c}]
                   /\ UNCHANGED <<communityCards, currentRound>>
              ELSE /\ communityCards' = IF s \in {0, 4, 6} THEN communityCards
                                        ELSE Append(communityCards, c)
                   /\ currentRound' = IF s = 3 THEN 1
                                      ELSE IF s = 5 THEN 2
                                      ELSE IF s = 7 THEN 3 ELSE currentRound
                   /\ UNCHANGED players
    /\ UNCHANGED <<pot, dealerPosition, betVars, pc, histVars, evalVars, cmpVars>>

\* The end of startGame, after the hole cards or after a street.
SeatedEnd ==
    /\ pc = "deal"
    /\ Len(drawn) - HoleCards * Len(players) \in {0, 4, 6, 8}
    /\ dealerPosition' = (dealerPosition + 1) % Len(players)
    /\ pc' = "idle"
    /\ UNCHANGED <<deck, players, communityCards, pot, currentRound, betVars,
                   histVars, evalVars, cmpVars, drawn>>

SeatedNext == addPlayer \/ SeatedStart \/ SeatedDeal \/ SeatedEnd

SpecSeated == SeatedInit /\ [][SeatedNext]_vars

(***************************************************************************)
(* Standard poker rules, as the claims refer to them: the category of a    *)
(* five-card hand, and the strongest five-card subset of a larger hand.    *)
(***************************************************************************)
FiveCardSubsets(cs) == {f \in SUBSET cs : Cardinality(f) = 5}

StdIsStraight5(f) ==
    LET R == {c.rank : c \in f}
    IN  /\ Cardinality(R) = 5
        /\ \/ SetMax(R) - SetMin(R) = 4
           \/ R = {ACE, TWO, THREE, FOUR, FIVE}

StdIsFlush5(f) == Cardinality({c.suit : c \in f}) = 1

\* The multiplicities of the ranks of five cards, as a set of (rank, count).
StdGroups(f, n) == {r \in {c.rank : c \in f} : RankCount(f, r) = n}

StdCategory5(f) ==
    IF StdIsStraight5(f) /\ StdIsFlush5(f) THEN STRAIGHT_FLUSH
    ELSE IF StdGroups(f, 4) # {} THEN FOUR_OF_A_KIND
    ELSE IF StdGroups(f, 3) # {} /\ StdGroups(f, 2) # {} THEN FULL_HOUSE
    ELSE IF StdIsFlush5(f) THEN FLUSH
    ELSE IF StdIsStraight5(f) THEN STRAIGHT
    ELSE IF StdGroups(f, 3) # {} THEN THREE_OF_A_KIND
    ELSE IF Cardinality(StdGroups(f, 2)) = 2 THEN TWO_PAIR
    ELSE IF Cardinality(StdGroups(f, 2)) = 1 THEN ONE_PAIR
    ELSE HIGH_CARD

BestCategory(cs) == SetMax({StdCategory5(f) : f \in FiveCardSubsets(cs)})

Evaluated == eval # NoEval

\* C1: evaluateHand is total: on every hand of 5 to 7 cards it returns, without
\* a fault and without reading outside its rank list, one of the 9 categories
\* and a key.
C1_EvaluateTotal ==
    Evaluated =>
        /\ ~eval.fault
        /\ eval.rank \in HIGH_CARD..STRAIGHT_FLUSH
        /\ Len(eval.key) = Cardinality(cards)

\* C2: for 5 to 7 distinct cards the category evaluateHand returns is the
\* category of the strongest five-card subset; STRAIGHT_FLUSH only when five
\* of the cards are consecutive and of one suit.  Stated on the hands with at
\* least five distinct ranks, where isStraight stays inside its rank list, so
\* that the category is the classification cascade's own.
C2_BestFiveCategory ==
    (Evaluated /\ Cardinality({c.rank : c \in cards}) >= 5) =>
        /\ ~eval.fault
        /\ eval.rank = BestCategory(cards)
        /\ (eval.rank = STRAIGHT_FLUSH =>
              \E f \in FiveCardSubsets(cards) : StdIsStraight5(f) /\ StdIsFlush5(f))

(***************************************************************************)
(* The standard order of five-card hands: the category, then the ranks in  *)
(* order of multiplicity and height, the ace of a wheel counting as 1.     *)
(***************************************************************************)
StdIsWheel5(f) == {c.rank : c \in f} = {ACE, TWO, THREE, FOUR, FIVE}

StdRank(f, r) == IF StdIsWheel5(f) /\ r = ACE THEN 1 ELSE r

StdTieBreak(f) ==
    LET R == {StdRank(f, c.rank) : c \in f}
        n == [r \in R |-> Cardinality({c \in f : StdRank(f, c.rank) = r})]
    IN  CountPairOrder(n, R)

StdKey5(f) == <<StdCategory5(f)>> \o StdTieBreak(f)

\* Lexicographic order on sequences of one length.
SeqGreater(a, b) ==
    \E i \in 1..Len(a) : a[i] > b[i] /\ \A j \in 1..(i - 1) : a[j] = b[j]

\* The category and ranks of the best five cards of a hand.
BestFiveKey(cs) ==
    LET K == {StdKey5(f) : f \in FiveCardSubsets(cs)}
    IN  CHOOSE k \in K : \A k2 \in K : ~SeqGreater(k2, k)

DistinctRanks(cs) == Cardinality({c.rank : c \in cs})

SevenCards(p) == getCombinedCards(holes[p], board)

Sign(x) == IF x > 0 THEN 1 ELSE IF x < 0 THEN -1 ELSE 0

\* C3: two 7-card hands of one category whose best five cards have the same
\* ranks compare as an exact tie, whatever their other two cards are.  Stated
\* on the hands with at least five distinct ranks, where evaluateHand stays
\* inside its rank list; every call is looked at in the state it returns in.
C3_BestFiveDecides ==
    \A k \in {Len(cmp)} \ {0} :
        LET h1 == SevenCards(ComparePair(k)[1])
            h2 == SevenCards(ComparePair(k)[2])
        IN  (/\ DistinctRanks(h1) >= 5
             /\ DistinctRanks(h2) >= 5
             /\ BestFiveKey(h1) = BestFiveKey(h2))
            => (~cmp[k].fault /\ cmp[k].value = 0)

AllCompared == Len(cmp) = NumCompares

Cmp(i, j) == cmp[CompareIndex(i, j)]

\* C4: comparison is a total preorder: compare(H, H) is equal; compare(H1, H2)
\* and compare(H2, H1) have opposite signs; >= and equality are transitive; the
\* higher category wins whatever the keys.
C4_TotalPreorder ==
    AllCompared =>
        /\ \A i, j \in ComparePlayers : ~Cmp(i, j).fault
        /\ \A i \in ComparePlayers : Cmp(i, i).value = 0
        /\ \A i, j \in ComparePlayers : Sign(Cmp(i, j).value) = -Sign(Cmp(j, i).value)
        /\ \A i, j, k \in ComparePlayers :
              /\ (Cmp(i, j).value >= 0 /\ Cmp(j, k).value >= 0) => Cmp(i, k).value >= 0
              /\ (Cmp(i, j).value = 0 /\ Cmp(j, k).value = 0) => Cmp(i, k).value = 0
        /\ \A i, j \in ComparePlayers :
              \A e1 \in evaluateHand(SevenCards(i)), e2 \in evaluateHand(SevenCards(j)) :
                  (~e1.fault /\ ~e2.fault /\ e1.rank > e2.rank) => Cmp(i, j).value > 0

(***************************************************************************)
(* Properties of the table.                                                *)
(***************************************************************************)
RECURSIVE Sum(_, _)
Sum(f, S) ==
    IF S = {} THEN 0
    ELSE LET x == CHOOSE y \in S : TRUE IN f[x] + Sum(f, S \ {x})

\* A step that is one call of handlePlayerAction reading the given choice.
ActionStep(kind) == lastAction'.n = lastAction.n + 1 /\ lastAction'.kind = kind

\* C5: at a showdown that ends with k >= 2 tied winners and pot P, every
\* winner's stack grows by P div k, the winner in the lowest seat also gets
\* P mod k, no other stack changes, and the stacks grow by P in total.
C5_SplitPot ==
    [][(pc = "afterbet" /\ pc' = "idle" /\ Len(winners') >= 2) =>
         LET k == Len(winners')
             W == SeqRange(winners')
             gain == [i \in Seats |-> players'[i].chips - players[i].chips]
         IN  /\ Cardinality(W) = k
             /\ \A i \in Seats :
                  gain[i] = (IF i \in W THEN pot \div k ELSE 0)
                            + (IF i = SetMin(W) THEN pot % k ELSE 0)
             /\ Sum(gain, Seats) = pot]_vars

C5_Witness ==
    /\ pc = "idle"
    /\ Len(winners) >= 2
    /\ pot % Len(winners) # 0

\* C6: when bettingRound has returned with two or more contesting players,
\* each of them has a current bet equal to currentBetAmount; and when nobody
\* has folded and a raise has been followed by a call from every other seat,
\* the street is over (no action is pending) and the pot is NumPlayers times
\* the matched bet.
C6_MatchedOnReturn ==
    /\ (pc = "afterbet" /\ getActivePlayerCount(players) >= 2) =>
         \A i \in Seats : IsActive(players, i) => players[i].currentBet = currentBetAmount
    /\ (/\ lastAction.raiser # -1
        /\ lastAction.called = Seats \ {lastAction.raiser}
        /\ \A i \in Seats : IsActive(players, i)) =>
         /\ pc # "act"
         /\ pot = NumPlayers * currentBetAmount

C6_Witness ==
    /\ pc = "afterbet"
    /\ lastAction.kind = "call"
    /\ lastAction.raiser # -1
    /\ lastAction.called = Seats \ {lastAction.raiser}
    /\ \A i \in Seats : IsActive(players, i)

\* C7: from the moment one contesting player is left in a round, the only
\* step taken is the showdown: no action is read, no street is begun, and
\* the deck and the community cards stay as they are.
C7_LoneSurvivorEndsRound ==
    [][(pc \in {"street", "act", "afterbet"} /\ getActivePlayerCount(players) = 1) =>
         /\ deck' = deck
         /\ communityCards' = communityCards
         /\ lastAction' = lastAction
         /\ pc' = "idle"]_vars

C7_Witness ==
    /\ pc = "afterbet"
    /\ getActivePlayerCount(players) = 1
    /\ lastAction.kind = "fold"
    /\ currentRound \in {1, 2}

\* C8: a raise by an amount from minRaise to the player's stack succeeds: the
\* player is not folded, the stack goes down and the pot up by the same
\* positive amount, currentBetAmount is the raiser's current bet and the
\* raiser is lastAggressorIndex.
C8_RaiseSucceeds ==
    [][ActionStep("raise") =>
         LET i == lastAction'.seat
         IN  (/\ MinRaise(players, currentBetAmount, i) <= lastAction'.amount
              /\ lastAction'.amount <= players[i].chips) =>
               /\ ~players'[i].hasFolded
               /\ pot' > pot
               /\ players[i].chips - players'[i].chips = pot' - pot
               /\ currentBetAmount' = players'[i].currentBet
               /\ lastAggressorIndex' = i]_vars

\* C9: a call is read only from a player who owes a positive amount.  When the
\* stack covers it, that amount moves from the stack to the player's current
\* bet and to the pot; when it does not, the player is folded and stack, bet
\* and pot stay.  currentBetAmount and lastAggressorIndex stay in both cases.
C9_CallMovesOwed ==
    [][ActionStep("call") =>
         LET i == lastAction'.seat
             owed == currentBetAmount - players[i].currentBet
             moved == IF players[i].chips >= owed THEN owed ELSE 0
         IN  /\ owed > 0
             /\ players'[i].hasFolded = (players[i].chips < owed)
             /\ players'[i].chips = players[i].chips - moved
             /\ players'[i].currentBet = players[i].currentBet + moved
             /\ pot' = pot + moved
             /\ currentBetAmount' = currentBetAmount
             /\ lastAggressorIndex' = lastAggressorIndex]_vars

C9_Witness ==
    /\ lastAction.kind = "call"
    /\ ~lastAction.ok
    /\ players[lastAction.seat].hasFolded
    /\ players[lastAction.seat].chips > 0

\* C10: the pot is the sum of the current bets of all players, folded ones
\* included; when the blinds have just been posted it is what the two blind
\* seats have bet, nothing being carried over from the round before.
C10_PotIsSumOfBets ==
    /\ pot = Sum([i \in Seats |-> players[i].currentBet], Seats)
    /\ (pc = "street" /\ currentRound = 0) =>
         /\ pot <= SmallBlindAmount + BigBlindAmount
         /\ \A i \in Seats :
              players[i].currentBet > 0 => players[i].isSmallBlind \/ players[i].isBigBlind

C10_Witness ==
    /\ pc = "afterbet"
    /\ roundsPlayed = MaxRounds
    /\ pot > SmallBlindAmount + BigBlindAmount
    /\ \E i \in Seats : players[i].hasFolded /\ players[i].currentBet > 0

\* C11: every chip stack and every current bet is at least 0, and a player's
\* current bet is what has been taken from that player's stack in the round:
\* startGame leaves it at what the blind took, a showdown leaves it alone, and
\* every other step adds to it what it takes from the stack.
C11_StacksAndBets ==
    [][\A i \in Seats :
         /\ players'[i].chips >= 0
         /\ players'[i].currentBet >= 0
         /\ IF roundsPlayed' # roundsPlayed
            THEN players'[i].currentBet = players[i].chips - players'[i].chips
            ELSE IF pc = "afterbet" /\ pc' = "idle"
            THEN players'[i].currentBet = players[i].currentBet
            ELSE players'[i].currentBet - players[i].currentBet
                   = players[i].chips - players'[i].chips]_vars

C11_Witness ==
    /\ roundsPlayed = MaxRounds
    /\ \E i \in Seats : players[i].chips = 0 /\ players[i].currentBet > StartingChips

\* C12: a 7-card hand whose best five cards are the wheel A-2-3-4-5 compares
\* strictly lower than a 7-card hand whose best five cards are the straight
\* 2-3-4-5-6.
C12_WheelIsLowest ==
    \A k \in {Len(cmp)} \ {0} :
        LET h1 == SevenCards(ComparePair(k)[1])
            h2 == SevenCards(ComparePair(k)[2])
        IN  (/\ {ACE, TWO} \subseteq {c.rank : c \in h1}
             /\ 6 \in {c.rank : c \in h2}
             /\ BestFiveKey(h1) = <<STRAIGHT, FIVE, FOUR, THREE, TWO, 1>>
             /\ BestFiveKey(h2) = <<STRAIGHT, 6, FIVE, FOUR, THREE, TWO>>)
            => (~cmp[k].fault /\ cmp[k].value < 0)

\* C13: a hand of 5 to 7 cards that holds an ace, a 2, a 3, a 4 and a 5, has
\* no five cards of one suit and no rank three times beside a second pair, is
\* evaluated without fault as STRAIGHT.
WheelInput(cs) ==
    /\ {ACE, TWO, THREE, FOUR, FIVE} \subseteq {c.rank : c \in cs}
    /\ \A s \in {c.suit : c \in cs} : Cardinality({c \in cs : c.suit = s}) < 5
    /\ ~\E r1, r2 \in {c.rank : c \in cs} :
          r1 # r2 /\ RankCount(cs, r1) >= 3 /\ RankCount(cs, r2) >= 2

C13_WheelIsStraight ==
    (Evaluated /\ WheelInput(cards)) => (~eval.fault /\ eval.rank = STRAIGHT)

C13_Witness ==
    /\ Evaluated
    /\ WheelInput(cards)
    /\ Cardinality(cards) = MaxCards
    /\ 6 \notin {c.rank : c \in cards}
    /\ eval.rank = STRAIGHT

\* C14: a 7-card hand made of two different three-of-a-kinds and one other
\* card is evaluated without fault, and as FULL_HOUSE.
TwoTriples(cs) ==
    /\ Cardinality(cs) = 7
    /\ Cardinality({r \in {c.rank : c \in cs} : RankCount(cs, r) = 3}) = 2
    /\ Cardinality({c.rank : c \in cs}) = 3

C14_TwoTriplesFullHouse ==
    (Evaluated /\ TwoTriples(cards)) => (~eval.fault /\ eval.rank = FULL_HOUSE)

\* C15: the dealer seat moves on by one, modulo the number of seats, when a
\* round is completed and at no other step; so the dealer of the r-th round is
\* seat (r - 1) mod NumPlayers, and NumPlayers rounds in a row have every seat
\* as dealer once.
C15_DealerRotates ==
    [][/\ (pc = "afterbet" /\ pc' = "idle") =>
            dealerPosition' = (dealerPosition + 1) % NumPlayers
       /\ ~(pc = "afterbet" /\ pc' = "idle") => dealerPosition' = dealerPosition
       /\ dealerPosition'
            = (IF pc' = "idle" THEN roundsPlayed' ELSE roundsPlayed' - 1) % NumPlayers]_vars

C15_Witness ==
    /\ pc = "idle"
    /\ roundsPlayed = NumPlayers
    /\ dealerPosition = 0
    /\ Len(winners) >= 2

\* C16: a street that has begun comes to its end; bettingRound has returned
\* only with every contesting player's bet at currentBetAmount or above, or
\* with at most one contesting player; and a raise that is taken costs the
\* raiser at least a big blind, so a stack pays for finitely many raises.
C16_StreetTerminates ==
    /\ [](pc = "afterbet" =>
            \/ getActivePlayerCount(players) <= 1
            \/ \A i \in Seats :
                 IsActive(players, i) => players[i].currentBet >= currentBetAmount)
    /\ [][ActionStep("raise") =>
            LET i == lastAction'.seat
            IN  \/ players'[i].hasFolded
                \/ players'[i].chips <= players[i].chips - BigBlindAmount]_vars
    /\ (pc = "act" ~> pc = "afterbet")

C16_Witness ==
    /\ pc = "afterbet"
    /\ currentRound = 2
    /\ raisesMade = MaxRaises
    /\ getActivePlayerCount(players) >= 2
    /\ lastAction.kind = "call"

\* C17: dealCard on an empty deck returns no card: the cards returned stay as
\* they were.
C17_EmptyDeckYieldsNoCard ==
    [][deck = <<>> => drawn' = drawn]_vars

\* C18: when a round starts, the small blind is seat (dealer + 1) mod NumPlayers
\* and the big blind is seat (dealer + 2) mod NumPlayers.  A blind that the
\* seat's stack covers goes from the stack to the seat's current bet and to the
\* pot; one that it does not cover is not taken at all.  Every player is
\* contesting afterwards and the round goes on to its first street.
BlindTaken(i, amount) == IF players[i].chips >= amount THEN amount ELSE 0

C18_BlindsPosted ==
    [][roundsPlayed' = roundsPlayed + 1 =>
         LET sb == (dealerPosition + 1) % NumPlayers
             bb == (dealerPosition + 2) % NumPlayers
             taken == [i \in Seats |->
                         (IF i = sb THEN BlindTaken(i, SmallBlindAmount) ELSE 0)
                         + (IF i = bb THEN BlindTaken(i, BigBlindAmount) ELSE 0)]
         IN  /\ \A i \in Seats :
                  /\ players'[i].isSmallBlind = (i = sb)
                  /\ players'[i].isBigBlind = (i = bb)
                  /\ players'[i].chips = players[i].chips - taken[i]
                  /\ players'[i].currentBet = taken[i]
                  /\ IsActive(players', i)
             /\ pot' = taken[sb] + taken[bb]
             /\ bigBlindIndex' = bb
             /\ pc' = "street"]_vars

C18_Witness ==
    /\ pc = "street"
    /\ currentRound = 0
    /\ roundsPlayed = MaxRounds
    /\ \E i \in Seats :
         /\ players[i].isBigBlind
         /\ players[i].currentBet = 0
         /\ players[i].chips < BigBlindAmount
         /\ IsActive(players, i)

\* C19: when a street ends with two or more contesting players, a choice has
\* been read in that street from every player who was contesting at its start:
\* from those who folded in it and from those still contesting.
C19_EveryoneOffered ==
    (pc = "afterbet" /\ getActivePlayerCount(players) >= 2) =>
        \A i \in Seats : IsActive(players, i) => i \in lastAction.offered

\* C20: when a street in which a raise was taken ends with two or more
\* contesting players, a choice has been read after the last raise from every
\* contesting player other than the raiser.
C20_RaiseReopens ==
    (/\ pc = "afterbet"
     /\ getActivePlayerCount(players) >= 2
     /\ lastAggressorIndex # -1) =>
        \A i \in Seats :
            (IsActive(players, i) /\ i # lastAggressorIndex) => i \in lastAction.reacted

C20_Witness ==
    /\ pc = "afterbet"
    /\ getActivePlayerCount(players) = NumPlayers
    /\ lastAggressorIndex # -1
    /\ lastAction.reacted = Seats \ {lastAggressorIndex}
    /\ raisesMade = MaxRaises

\* C21: a choice is read only from a contesting player; and when another
\* choice is to be read in the street, it is read from the nearest contesting
\* seat after the player who has just chosen, unless a raise has been taken
\* and that seat is the one the scan started from: then it is read from the
\* nearest contesting seat after the last raiser.
Offered(kind) == kind \in {"fold", "call", "raise"}

NearestContestingAfter(ps, seat) ==
    LET nearer(a, b) == (a + NumPlayers - seat - 1) % NumPlayers
                          < (b + NumPlayers - seat - 1) % NumPlayers
    IN  CHOOSE s \in Seats :
          /\ IsActive(ps, s)
          /\ \A t \in Seats \ {s} : IsActive(ps, t) => nearer(s, t)

C21_SeatOrder ==
    [][(lastAction'.n = lastAction.n + 1 /\ Offered(lastAction'.kind)) =>
         /\ lastAction'.seat = currentPlayerIndex
         /\ IsActive(players, currentPlayerIndex)
         /\ pc' = "act" =>
              LET nxt == NearestContestingAfter(players', lastAction'.seat)
              IN  currentPlayerIndex'
                    = IF nxt = firstPlayerIndex /\ lastAggressorIndex' # -1
                      THEN NearestContestingAfter(players', lastAggressorIndex')
                      ELSE nxt]_vars

C21_Witness ==
    /\ pc = "act"
    /\ Offered(lastAction.kind)
    /\ lastAggressorIndex # -1
    /\ lastAggressorIndex # lastAction.seat
    /\ currentPlayerIndex # NearestContestingAfter(players, lastAction.seat)

\* C22: a showdown with two or more contesting players ends with winners being,
\* in ascending seat order, exactly the contesting players whose seven cards
\* no other contesting player's seven cards beat under compareHands; and the
\* stack of a folded player does not change.
HandValue(i, j) ==
    LET r == CHOOSE x \in compareHands(players[i].hand, players[j].hand,
                                       SeqRange(communityCards)) : ~x.fault
    IN  r.value

MaximalHands ==
    {i \in Seats : /\ IsActive(players, i)
                   /\ \A j \in Seats : IsActive(players, j) => HandValue(i, j) >= 0}

C22_WinnersAreMaximal ==
    [][(/\ pc = "afterbet"
        /\ pc' # "afterbet"
        /\ currentRound = 3
        /\ getActivePlayerCount(players) >= 2) =>
         /\ pc' = "idle"
         /\ winners' = AscendingSeq(MaximalHands)
         /\ \A i \in Seats :
              ~IsActive(players, i) => players'[i].chips = players[i].chips]_vars

\* C23: the streets of a round run pre-flop, flop, turn, river, one at a time,
\* and a street is dealt only while more than one player contests; there are
\* 0, 3, 4 or 5 community cards and within a round they are only appended to;
\* every reveal burns one card, so that the deck holds 52 - 2N cards pre-flop
\* and 4, 6 and 8 fewer after the flop, the turn and the river; a contested
\* showdown evaluates seven cards for each contestant.
StreetCards(street) == IF street = 0 THEN 0 ELSE street + 2

StreetDeck(street) ==
    52 - HoleCards * NumPlayers - (IF street = 0 THEN 0 ELSE 2 * street + 2)

IsPrefix(s, t) == Len(s) <= Len(t) /\ SubSeq(t, 1, Len(s)) = s

C23_StreetOrder ==
    /\ [](/\ currentRound \in 0..3
          /\ Len(communityCards) = StreetCards(currentRound)
          /\ roundsPlayed > 0 => Len(deck) = StreetDeck(currentRound))
    /\ [][/\ currentRound' # currentRound =>
               \/ /\ pc = "idle"
                  /\ currentRound' = 0
               \/ /\ currentRound' = currentRound + 1
                  /\ getActivePlayerCount(players) > 1
                  /\ IsPrefix(communityCards, communityCards')
          /\ (pc = "idle" /\ pc' # "idle") => communityCards' = <<>>
          /\ (pc = "afterbet" /\ pc' \in {"idle", "fault"}
                /\ getActivePlayerCount(players) > 1) =>
               \A i \in Seats :
                  IsActive(players, i) =>
                     Cardinality(getCombinedCards(players[i].hand,
                                                  SeqRange(communityCards))) = 7]_vars

C23_Witness ==
    /\ pc = "idle"
    /\ currentRound = 3
    /\ Len(communityCards) = 5
    /\ Len(deck) = 52 - HoleCards * NumPlayers - 8
    /\ getActivePlayerCount(players) > 1
    /\ winners # <<>>

\* C24: within a street every choice read after the street's first is read
\* from a player who owes chips, that is whose current bet is below the
\* highest bet: no contesting player who owes is passed over for one who has
\* matched.
Owes(ps, maxBet, i) == IsActive(ps, i) /\ ToCall(ps, maxBet, i) > 0

C24_OffersGoToOwing ==
    [][(/\ lastAction'.n = lastAction.n + 1
        /\ Offered(lastAction'.kind)
        /\ lastAction.offered # {}) =>
         Owes(players, currentBetAmount, currentPlayerIndex)]_vars

\* C25: a street that is entered with two or more contesting players reads a
\* choice from some contesting player before it ends, also after the flop
\* when the big blind, at whose seat the street starts, has folded.
C25_StreetOffersAnAction ==
    [][(/\ pc = "act"
        /\ pc' = "afterbet") => lastAction'.offered # {}]_vars

\* C26: chips are conserved.  In every state of a round the stacks and the pot
\* add up to what the stacks added up to when the round started, and when the
\* showdown has paid the pot the stacks alone add up to it, round after round.
Stacks(ps) == Sum([i \in Seats |-> ps[i].chips], Seats)

C26_ChipsConserved ==
    /\ [](/\ pc \in {"street", "act", "afterbet", "fault"} =>
               Stacks(players) + pot = NumPlayers * StartingChips
          /\ pc = "idle" => Stacks(players) = NumPlayers * StartingChips)
    /\ [][/\ (pc = "idle" /\ pc' # "idle") => Stacks(players') + pot' = Stacks(players)
          /\ (pc # "idle" /\ pc' = "idle") => Stacks(players') = Stacks(players) + pot
          /\ (pc # "idle" /\ pc' # "idle") =>
               Stacks(players') + pot' = Stacks(players) + pot]_vars

C26_Witness ==
    /\ pc = "idle"
    /\ roundsPlayed = MaxRounds
    /\ Len(winners) = 2
    /\ pot % 2 = 1
    /\ \E i \in Seats : players[i].chips = 0

\* C27: in every round at least one player is contesting (in the game and not
\* folded): a choice is read only while two or more contest, the showdown
\* finds someone remaining, and a showdown that ends pays the pot to players
\* who were contesting.
Contesting(ps) == {i \in Seats : ps[i].isInGame /\ ~ps[i].hasFolded}

====
